---- MODULE Spec2Model ----
(***************************************************************************)
(* Analytics engine of the futures-strategy evaluation system:             *)
(*   MetricsCalculator  (src/src/calculator/metrics.py)                    *)
(*   BehaviorDetector   (src/src/detector/behavior_detector.py)            *)
(* and the two callers of the daily risk metrics:                          *)
(*   SupabaseUploader.upload_daily_metrics (src/src/db/supabase_uploader.py)*)
(*   main of src/src/export_data.py                                        *)
(*                                                                         *)
(* Numbers.  The program computes in IEEE doubles.  A number is modelled   *)
(* as a record: a finite value is an exact normalised fraction n/d, and    *)
(* the two infinities and NaN are values of their own, with the IEEE rules *)
(* for division by zero, inf - inf, 0 * inf and comparisons with NaN.      *)
(* The square root is taken to two decimals.                               *)
(* Signed zeros are not distinguished.                                     *)
(***************************************************************************)
EXTENDS Integers, Sequences, FiniteSets, TLC

\* ------------------------------------------------------------------------
\* Bounds of the model
\* ------------------------------------------------------------------------
MaxDays == 3
MaxRecords == 4
MaxTrades == 5

\* ------------------------------------------------------------------------
\* Extended-real arithmetic
\* ------------------------------------------------------------------------
Abs(i) == IF i < 0 THEN -i ELSE i

RECURSIVE GCD(_, _)
GCD(a, b) == IF b = 0 THEN a ELSE GCD(b, a % b)

NaN    == [k |-> "nan", n |-> 0, d |-> 0]
PosInf == [k |-> "inf", n |-> 1, d |-> 0]
NegInf == [k |-> "inf", n |-> -1, d |-> 0]

\* the finite number n/d (d # 0), normalised
Q(n, d) ==
    LET g == GCD(Abs(n), Abs(d))
        s == IF d < 0 THEN -1 ELSE 1
    IN  [k |-> "fin", n |-> s * (n \div g), d |-> s * (d \div g)]

I(i) == [k |-> "fin", n |-> i, d |-> 1]
Zero == I(0)
One  == I(1)

IsNaN(x) == x.k = "nan"
IsInf(x) == x.k = "inf"
IsFin(x) == x.k = "fin"
Sign(x)  == IF x.n > 0 THEN 1 ELSE IF x.n < 0 THEN -1 ELSE 0
InfOf(s) == IF s > 0 THEN PosInf ELSE NegInf

Neg(x) == [x EXCEPT !.n = -x.n]

Add(x, y) ==
    IF IsNaN(x) \/ IsNaN(y) THEN NaN
    ELSE IF IsInf(x) /\ IsInf(y) THEN (IF x.n = y.n THEN x ELSE NaN)
    ELSE IF IsInf(x) THEN x
    ELSE IF IsInf(y) THEN y
    ELSE LET g == GCD(x.d, y.d)
             l == (x.d \div g) * y.d
         IN  Q(x.n * (l \div x.d) + y.n * (l \div y.d), l)

Sub(x, y) == Add(x, Neg(y))

Mul(x, y) ==
    IF IsNaN(x) \/ IsNaN(y) THEN NaN
    ELSE IF IsInf(x) \/ IsInf(y)
         THEN (IF Sign(x) * Sign(y) = 0 THEN NaN ELSE InfOf(Sign(x) * Sign(y)))
    ELSE LET g1 == GCD(Abs(x.n), y.d)
             g2 == GCD(Abs(y.n), x.d)
         IN  Q((x.n \div g1) * (y.n \div g2), (x.d \div g2) * (y.d \div g1))

Div(x, y) ==
    IF IsNaN(x) \/ IsNaN(y) THEN NaN
    ELSE IF IsInf(x) THEN (IF IsInf(y) THEN NaN
                           ELSE InfOf(x.n * (IF y.n < 0 THEN -1 ELSE 1)))
    ELSE IF IsInf(y) THEN Zero
    ELSE IF y.n = 0 THEN (IF x.n = 0 THEN NaN ELSE InfOf(Sign(x)))
    ELSE Mul(x, Q(y.d, y.n))

\* x < y as the hardware decides it: False whenever an operand is NaN
Lt(x, y) ==
    IF IsNaN(x) \/ IsNaN(y) THEN FALSE
    ELSE IF IsInf(x) THEN x.n < 0 /\ y # x
    ELSE IF IsInf(y) THEN y.n > 0
    ELSE LET g == GCD(x.d, y.d)
             l == (x.d \div g) * y.d
         IN  x.n * (l \div x.d) < y.n * (l \div y.d)

Gt(x, y) == Lt(y, x)
Le(x, y) == ~IsNaN(x) /\ ~IsNaN(y) /\ ~Lt(y, x)
Ge(x, y) == Le(y, x)
AbsQ(x) == IF x.n < 0 THEN Neg(x) ELSE x

\* Python's builtin max(a, b) / min(a, b): the second argument replaces the
\* first only when the comparison is True
PyMax(a, b) == IF Gt(b, a) THEN b ELSE a
PyMin(a, b) == IF Lt(b, a) THEN b ELSE a

RECURSIVE Pow10(_)
Pow10(e) == IF e = 0 THEN 1 ELSE 10 * Pow10(e - 1)

\* digits of the fraction r/d (0 <= r < d) to nd decimals: <<value, remainder>>
RECURSIVE LongDiv(_, _, _, _)
LongDiv(acc, r, d, nd) ==
    IF nd = 0 THEN <<acc, r>>
    ELSE LongDiv(acc * 10 + ((r * 10) \div d), (r * 10) % d, d, nd - 1)

\* round(x, nd): to nd decimals, ties to even; inf and NaN are returned as is
Round(x, nd) ==
    IF ~IsFin(x) THEN x
    ELSE LET a  == Abs(x.n)
             ld == LongDiv(a \div x.d, a % x.d, x.d, nd)
             up == \/ 2 * ld[2] > x.d
                   \/ 2 * ld[2] = x.d /\ ld[1] % 2 = 1
             m  == IF up THEN ld[1] + 1 ELSE ld[1]
         IN  Q(Sign(x) * m, Pow10(nd))

\* floor of the square root of a natural number, by bisection
RECURSIVE ISqrtIn(_, _, _)
ISqrtIn(v, lo, hi) ==
    IF lo >= hi THEN lo
    ELSE LET mid == (lo + hi + 1) \div 2
         IN  IF mid <= v \div mid THEN ISqrtIn(v, mid, hi)
             ELSE ISqrtIn(v, lo, mid - 1)

ISqrt(v) == IF v = 0 THEN 0 ELSE ISqrtIn(v, 1, v)

\* np.sqrt, to two decimals (the precision of the model)
Sqrt(x) ==
    IF IsNaN(x) THEN NaN
    ELSE IF IsInf(x) THEN (IF x.n > 0 THEN PosInf ELSE NaN)
    ELSE IF x.n < 0 THEN NaN
    ELSE LET ld == LongDiv(x.n \div x.d, x.n % x.d, x.d, 4)
         IN  Q(ISqrt(ld[1]), 100)

\* ------------------------------------------------------------------------
\* pandas Series reductions used by the calculator (skipna = True)
\* ------------------------------------------------------------------------
\* A column is a sequence.  A column computed from others is written
\* [i \in 1..n |-> e] \o <<>>: the same sequence, as a tuple of its values, so
\* that each entry is computed once.
RECURSIVE SumSkip(_, _)
SumSkip(s, i) ==
    IF i = 0 THEN Zero
    ELSE Add(SumSkip(s, i - 1), IF IsNaN(s[i]) THEN Zero ELSE s[i])

RECURSIVE CountValid(_, _)
CountValid(s, i) ==
    IF i = 0 THEN 0
    ELSE CountValid(s, i - 1) + (IF IsNaN(s[i]) THEN 0 ELSE 1)

\* Series.mean()
Mean(s) ==
    LET c == CountValid(s, Len(s))
    IN  IF c = 0 THEN NaN ELSE Div(SumSkip(s, Len(s)), I(c))

\* running maximum over the non-NaN entries of s[1..i]; NaN when there is none
RECURSIVE MaxSkip(_, _)
MaxSkip(s, i) ==
    IF i = 0 THEN NaN
    ELSE LET m == MaxSkip(s, i - 1)
         IN  IF IsNaN(s[i]) THEN m
             ELSE IF IsNaN(m) THEN s[i]
             ELSE IF Gt(s[i], m) THEN s[i] ELSE m

\* Series.cummax(): NaN stays NaN, the other entries get the running maximum
CumMax(s) == [i \in 1..Len(s) |-> IF IsNaN(s[i]) THEN NaN ELSE MaxSkip(s, i)] \o <<>>

\* Series.max()
SeriesMax(s) == MaxSkip(s, Len(s))

RECURSIVE ProdSkip(_, _)
ProdSkip(s, i) ==
    IF i = 0 THEN One
    ELSE Mul(ProdSkip(s, i - 1), IF IsNaN(s[i]) THEN One ELSE s[i])

\* Series.cumprod()
CumProdUncompounded(s) == s

CumProd(s) == [i \in 1..Len(s) |-> IF IsNaN(s[i]) THEN NaN ELSE ProdSkip(s, i)] \o <<>>

\* ndarray.sum(): NaN is not skipped
RECURSIVE SumAll(_, _)
SumAll(s, i) == IF i = 0 THEN Zero ELSE Add(SumAll(s, i - 1), s[i])

\* Series.std(): sample standard deviation (ddof = 1) of the non-NaN entries
Std(s) ==
    LET c    == CountValid(s, Len(s))
        avg  == Div(SumSkip(s, Len(s)), I(c))
        sqr  == [i \in 1..Len(s) |->
                    IF IsNaN(s[i]) THEN Zero
                    ELSE Mul(Sub(avg, s[i]), Sub(avg, s[i]))]
    IN  IF c <= 1 THEN NaN
        ELSE Sqrt(Div(SumAll(sqr, Len(s)), I(c - 1)))

\* (s > 0).sum() and (s != 0).sum()
CountPos(s) == Cardinality({i \in 1..Len(s) : Gt(s[i], Zero)})
CountEveryDay(s) == Len(s)

CountNonZero(s) == Cardinality({i \in 1..Len(s) : s[i] # Zero})

\* ------------------------------------------------------------------------
\* Sorting
\* ------------------------------------------------------------------------
\* insert index j into the index list idx, ordered by key, after its equals
RECURSIVE InsertIdx(_, _, _)
InsertIdx(idx, j, key) ==
    IF idx = <<>> THEN <<j>>
    ELSE IF key[idx[1]] <= key[j] THEN <<idx[1]>> \o InsertIdx(Tail(idx), j, key)
    ELSE <<j>> \o idx

RECURSIVE SortIdx(_, _)
SortIdx(m, key) ==
    IF m = 0 THEN <<>> ELSE InsertIdx(SortIdx(m - 1, key), m, key)

\* stable sort of the sequence s, ascending in the integer key[i] of s[i]
SortByKey(s, key) ==
    LET idx == SortIdx(Len(s), key)
    IN  [i \in 1..Len(s) |-> s[idx[i]]]

\* ------------------------------------------------------------------------
\* Sequences of rows
\* ------------------------------------------------------------------------
RECURSIVE Flatten(_)
Flatten(ss) == IF ss = <<>> THEN <<>> ELSE ss[1] \o Flatten(Tail(ss))

\* Series.unique(): the distinct values in order of first appearance
RECURSIVE Unique(_)
Unique(s) ==
    IF s = <<>> THEN <<>>
    ELSE LET u == Unique(SubSeq(s, 1, Len(s) - 1))
             x == s[Len(s)]
         IN  IF \E i \in 1..Len(u) : u[i] = x THEN u ELSE Append(u, x)

Column(rows, f) == [i \in 1..Len(rows) |-> rows[i][f]]

RECURSIVE SumInt(_)
SumInt(s) == IF s = <<>> THEN 0 ELSE s[1] + SumInt(Tail(s))

\* sorted(...unique()) of a column of trading days
SortedUnique(s) == LET u == Unique(s) IN SortByKey(u, u)

Min(a, b) == IF a < b THEN a ELSE b

\* ------------------------------------------------------------------------
\* MetricsCalculator
\* ------------------------------------------------------------------------
\* (equity - prev_equity - deposit_withdraw) / prev_equity
daily_return_ignoring_deposit(equity, prev_equity, deposit_withdraw) ==
    Div(Sub(equity, prev_equity), prev_equity)

daily_return_of(equity, prev_equity, deposit_withdraw) ==
    Div(Sub(Sub(equity, prev_equity), deposit_withdraw), prev_equity)

\* equity_df.copy().sort_values('trade_date')
sort_values_skipped(equity_df) == equity_df

sort_values(equity_df) ==
    SortByKey(equity_df, [i \in 1..Len(equity_df) |-> equity_df[i].trade_date])

\* calculate_daily_returns: the table with the derived columns
calculate_daily_returns(equity_df) ==
    LET df   == sort_values(equity_df) \o <<>>
        n    == Len(df)
        eq   == [i \in 1..n |-> I(df[i].equity)] \o <<>>
        prev == [i \in 1..n |-> IF i = 1 THEN NaN ELSE eq[i - 1]] \o <<>>
        raw  == [i \in 1..n |->
                    daily_return_of(eq[i], prev[i], I(df[i].deposit_withdraw))] \o <<>>
        dret == [i \in 1..n |-> IF IsNaN(raw[i]) THEN Zero ELSE raw[i]] \o <<>>
        cum  == CumProd([i \in 1..n |-> Add(One, dret[i])] \o <<>>)
        rmax == CumMax(eq)
        dd   == [i \in 1..n |-> Div(Sub(rmax[i], eq[i]), rmax[i])] \o <<>>
        mdd  == CumMax(dd)
    IN  <<>> \o
        [i \in 1..n |->
            [trade_date        |-> df[i].trade_date,
             equity            |-> df[i].equity,
             deposit_withdraw  |-> df[i].deposit_withdraw,
             margin_used       |-> df[i].margin_used,
             prev_equity       |-> prev[i],
             daily_return      |-> dret[i],
             cumulative_return |-> Sub(cum[i], One),
             running_max       |-> rmax[i],
             drawdown          |-> dd[i],
             max_drawdown      |-> mdd[i]]]

\* _calculate_performance_score
calculate_performance_score(total_return, sharpe, max_drawdown, win_rate) ==
    LET return_score   == PyMin(I(40), PyMax(Zero, Mul(Add(total_return, Q(5, 100)), I(200))))
        sharpe_score   == PyMin(I(30), PyMax(Zero, Mul(sharpe, I(15))))
        drawdown_score == PyMax(Zero, Sub(I(20), Mul(max_drawdown, I(100))))
        winrate_score  == Mul(win_rate, I(10))
    IN  Add(Add(Add(return_score, sharpe_score), drawdown_score), winrate_score)

\* _calculate_risk_score
calculate_risk_score(avg_margin_ratio, volatility, max_drawdown) ==
    LET margin_score   == PyMax(Zero, Sub(I(40), Mul(avg_margin_ratio, I(80))))
        vol_score      == PyMax(Zero, Sub(I(30), Mul(volatility, I(60))))
        drawdown_score == PyMax(Zero, Sub(I(30), Mul(max_drawdown, I(150))))
    IN  Add(Add(margin_score, vol_score), drawdown_score)

NoneResult == [tag |-> "None"]

\* df['trade_date'].max()
calc_date_min(df) == CHOOSE d \in {df[i].trade_date : i \in 1..Len(df)} :
                        \A i \in 1..Len(df) : d <= df[i].trade_date

calc_date_of(df) == CHOOSE d \in {df[i].trade_date : i \in 1..Len(df)} :
                        \A i \in 1..Len(df) : df[i].trade_date <= d

\* total_score = performance_score * 0.5 + risk_score * 0.5
total_score_skewed(performance_score, risk_score) ==
    Add(Mul(performance_score, Q(6, 10)), Mul(risk_score, Q(4, 10)))

total_score_of(performance_score, risk_score) ==
    Add(Mul(performance_score, Q(1, 2)), Mul(risk_score, Q(1, 2)))


\* sharpe_ratio = excess_return / volatility if volatility > 0 else 0
sharpe_ratio_unguarded(excess_return, volatility) == Div(excess_return, volatility)

sharpe_ratio_of(excess_return, volatility) ==
    IF Gt(volatility, Zero) THEN Div(excess_return, volatility) ELSE Zero

\* the values calculate_performance computes from the table of daily returns,
\* before it rounds them
metrics_of(df, rfr) ==
    LET n    == Len(df)
        dret == [i \in 1..n |-> df[i].daily_return] \o <<>>
        total_return      == df[n].cumulative_return
        annualized_return == IF n > 0 THEN Mul(total_return, Q(252, n)) ELSE Zero
        daily_std         == Std(dret)
        volatility        == IF ~IsNaN(daily_std) THEN Mul(daily_std, Sqrt(I(252))) ELSE Zero
        excess_return     == Sub(annualized_return, rfr)
        sharpe_ratio      == sharpe_ratio_of(excess_return, volatility)
        max_drawdown      == SeriesMax([i \in 1..n |-> df[i].max_drawdown] \o <<>>)
        calmar_ratio      == IF Gt(max_drawdown, Zero) THEN Div(annualized_return, max_drawdown) ELSE Zero
        win_days          == CountPos(dret)
        total_days        == CountNonZero(dret)
        win_rate          == IF total_days > 0 THEN Q(win_days, total_days) ELSE Zero
        mean_ratio        == Mean([i \in 1..n |-> Div(I(df[i].margin_used), I(df[i].equity))]
                                  \o <<>>)
        avg_margin_ratio  == IF IsNaN(mean_ratio) THEN Zero ELSE mean_ratio
    IN  [calc_date         |-> calc_date_of(df),
         total_return      |-> total_return,
         annualized_return |-> annualized_return,
         sharpe_ratio      |-> sharpe_ratio,
         max_drawdown      |-> max_drawdown,
         calmar_ratio      |-> calmar_ratio,
         win_rate          |-> win_rate,
         volatility        |-> volatility,
         avg_margin_ratio  |-> avg_margin_ratio]

\* the three scores of the metrics m
scores_of_rounded(m) ==
    LET performance_score == calculate_performance_score(
                                 Round(m.total_return, 6), Round(m.sharpe_ratio, 4),
                                 Round(m.max_drawdown, 6), Round(m.win_rate, 4))
        risk_score        == calculate_risk_score(
                                 Round(m.avg_margin_ratio, 4), Round(m.volatility, 6),
                                 Round(m.max_drawdown, 6))
    IN  [performance_score |-> performance_score,
         risk_score        |-> risk_score,
         total_score       |-> total_score_of(Round(performance_score, 2),
                                              Round(risk_score, 2))]

scores_of(m) ==
    LET performance_score == calculate_performance_score(m.total_return, m.sharpe_ratio,
                                                          m.max_drawdown, m.win_rate)
        risk_score        == calculate_risk_score(m.avg_margin_ratio, m.volatility,
                                                  m.max_drawdown)
    IN  [performance_score |-> performance_score,
         risk_score        |-> risk_score,
         total_score       |-> total_score_of(performance_score, risk_score)]

\* the values calculate_performance computes before it rounds them
performance_values(equity_df, rfr) ==
    LET m == metrics_of(calculate_daily_returns(equity_df), rfr)
        s == scores_of(m)
    IN  [calc_date         |-> m.calc_date,
         total_return      |-> m.total_return,
         annualized_return |-> m.annualized_return,
         sharpe_ratio      |-> m.sharpe_ratio,
         max_drawdown      |-> m.max_drawdown,
         calmar_ratio      |-> m.calmar_ratio,
         win_rate          |-> m.win_rate,
         volatility        |-> m.volatility,
         avg_margin_ratio  |-> m.avg_margin_ratio,
         performance_score |-> s.performance_score,
         risk_score        |-> s.risk_score,
         total_score       |-> s.total_score]

\* PerformanceMetrics(...): the values v, each rounded to its digits
PerformanceMetrics(strategy_code, v) ==
    [tag               |-> "PerformanceMetrics",
     strategy_code     |-> strategy_code,
     calc_date         |-> v.calc_date,
     total_return      |-> Round(v.total_return, 6),
     annualized_return |-> Round(v.annualized_return, 6),
     sharpe_ratio      |-> Round(v.sharpe_ratio, 4),
     max_drawdown      |-> Round(v.max_drawdown, 6),
     calmar_ratio      |-> Round(v.calmar_ratio, 4),
     win_rate          |-> Round(v.win_rate, 4),
     volatility        |-> Round(v.volatility, 6),
     avg_margin_ratio  |-> Round(v.avg_margin_ratio, 4),
     performance_score |-> Round(v.performance_score, 2),
     risk_score        |-> Round(v.risk_score, 2),
     total_score       |-> Round(v.total_score, 2)]

\* calculate_performance
calculate_performance(equity_df, strategy_code, rfr) ==
    IF Len(equity_df) < 2 THEN NoneResult
    ELSE PerformanceMetrics(strategy_code, performance_values(equity_df, rfr))

\* ------------------------------------------------------------------------
\* MetricsCalculator.calculate_daily_metrics
\* ------------------------------------------------------------------------
Lowers == <<"a", "b", "c", "d", "e", "f", "g", "h", "i", "j", "k", "l", "m",
            "n", "o", "p", "q", "r", "s", "t", "u", "v", "w", "x", "y", "z">>
Uppers == <<"A", "B", "C", "D", "E", "F", "G", "H", "I", "J", "K", "L", "M",
            "N", "O", "P", "Q", "R", "S", "T", "U", "V", "W", "X", "Y", "Z">>

\* str.upper and str.isalpha, one character at a time
Upper(c) == IF \E i \in 1..26 : Lowers[i] = c
            THEN Uppers[CHOOSE i \in 1..26 : Lowers[i] = c] ELSE c
IsAlpha(c) == \E i \in 1..26 : Lowers[i] = c \/ Uppers[i] = c

\* ''.join(filter(str.isalpha, contract.upper()))
contract_base(contract) ==
    SelectSeq([i \in 1..Len(contract) |-> Upper(contract[i])], IsAlpha)

\* the guard of calculate_daily_metrics: no result for such an equity
no_daily_metrics_strict(equity) == equity < 0

no_daily_metrics(equity) == equity <= 0

\* pos['long_qty'] > 0 and pos['short_qty'] > 0: the rows counted in the
\* long and in the short exposure
is_long_only(q) == q.long_qty > 0 /\ q.short_qty = 0

is_long(q) == q.long_qty > 0

is_short_only(q) == q.short_qty > 0 /\ q.long_qty = 0

is_short(q) == q.short_qty > 0

\* sum(sorted_values[:3])
top3_sum_after_first(sorted_values) ==
    SumInt(SubSeq(sorted_values, 2, Min(3, Len(sorted_values))))

top3_sum_of(sorted_values) ==
    SumInt(SubSeq(sorted_values, 1, Min(3, Len(sorted_values))))

calculate_daily_metrics(equity_row, pos, trd) ==
    LET strategy_code == equity_row.strategy_code
        trade_date    == equity_row.trade_date
        equity        == equity_row.equity
        margin_ratio  == IF equity > 0 THEN Q(equity_row.margin_used, equity) ELSE Zero
        day_pos       == SelectSeq(pos, LAMBDA q : q.trade_date = trade_date)
        long_exposure  == SumInt(Column(SelectSeq(day_pos, is_long), "position_value"))
        short_exposure == SumInt(Column(SelectSeq(day_pos, is_short), "position_value"))
        roots == [i \in 1..Len(day_pos) |-> contract_base(day_pos[i].contract)] \o <<>>
        bases == Unique(roots)
        position_values ==
            [b \in 1..Len(bases) |->
                SumInt([i \in 1..Len(day_pos) |->
                          IF roots[i] = bases[b] THEN day_pos[i].position_value ELSE 0])]
            \o <<>>
        total_position_value == long_exposure + short_exposure
        net_exposure   == IF equity > 0 THEN Q(long_exposure - short_exposure, equity) ELSE Zero
        gross_exposure == IF equity > 0 THEN Q(total_position_value, equity) ELSE Zero
        sorted_values  == SortByKey(position_values,
                                    [b \in 1..Len(bases) |-> -position_values[b]])
        top1_concentration ==
            IF bases # <<>> /\ total_position_value > 0
            THEN Q(sorted_values[1], total_position_value) ELSE Zero
        top3_sum == top3_sum_of(sorted_values)
        top3_concentration ==
            IF bases # <<>> /\ total_position_value > 0
            THEN Q(top3_sum, total_position_value) ELSE Zero
        day_trades == SelectSeq(trd, LAMBDA t : t.trade_date = trade_date)
    IN  IF no_daily_metrics(equity) THEN NoneResult
        ELSE [tag                  |-> "DailyMetrics",
              strategy_code        |-> strategy_code,
              trade_date           |-> trade_date,
              margin_ratio         |-> Round(margin_ratio, 4),
              long_exposure        |-> Round(I(long_exposure), 2),
              short_exposure       |-> Round(I(short_exposure), 2),
              net_exposure         |-> Round(net_exposure, 6),
              gross_exposure       |-> Round(gross_exposure, 6),
              total_position_value |-> Round(I(total_position_value), 2),
              top1_concentration   |-> Round(top1_concentration, 4),
              top3_concentration   |-> Round(top3_concentration, 4),
              position_count       |-> Len(bases),
              trade_count          |-> Len(day_trades),
              turnover             |-> Round(I(SumInt(Column(day_trades, "amount"))), 2)]

\* ------------------------------------------------------------------------
\* State
\* ------------------------------------------------------------------------
VARIABLES
    risk_free_rate,   \* MetricsCalculator.risk_free_rate
    alerts,           \* BehaviorDetector.alerts
    equity_df,        \* the caller's equity records of one strategy
    positions,        \* the caller's position records
    trades,           \* the caller's trade records
    ret,              \* the last call: its name, arguments and return value
    daily_metrics,    \* the table daily_metrics of the database, by (strategy_id, trade_date)
    data_json         \* the exported data.json: whether written, and its list 'risk'

vars == <<risk_free_rate, alerts, equity_df, positions, trades, ret, daily_metrics, data_json>>

Strategies   == {"S1", "S2"}
EquityVals   == {-100, 0, 90, 100}
DepositVals  == {0, 10}
MarginVals   == {0, 50}

EquityRows == [equity : EquityVals, deposit_withdraw : DepositVals]

\* the trading days 1..k in date order, rotated by r: the caller's records
\* come in date order (r = 0) or out of it
Rotated(k, r) == [i \in 1..k |-> ((i + r - 1) % k) + 1]

NoCall == [op |-> "none"]

\* the table without rows, and data.json not yet written
NoRows == [key \in {} |-> NoneResult]
NoExport == [written |-> FALSE, risk |-> <<>>]

\* MetricsCalculator.__init__ and BehaviorDetector.__init__; nothing is
\* uploaded or exported yet
InitEngines ==
    /\ risk_free_rate = Q(3, 100)
    /\ alerts = <<>>
    /\ ret = NoCall
    /\ daily_metrics = NoRows
    /\ data_json = NoExport

\* a batch of equity records of one strategy, one per trading day
InitMetrics ==
    /\ InitEngines
    /\ \E k \in 0..MaxDays : \E r \in {0, 1} :
       \E m \in MarginVals : \E rows \in [1..k -> EquityRows] :
          equity_df = [i \in 1..k |->
                          [trade_date       |-> Rotated(k, r)[i],
                           equity           |-> rows[Rotated(k, r)[i]].equity,
                           deposit_withdraw |-> rows[Rotated(k, r)[i]].deposit_withdraw,
                           margin_used      |-> m]]
    /\ positions = <<>>
    /\ trades = <<>>

\* the caller's table after calculate_daily_returns, which sorts a copy:
\* df = equity_df.copy().sort_values('trade_date')
equity_df_sorted_in_place(df) ==
    SortByKey(df, [i \in 1..Len(df) |-> df[i].trade_date])

equity_df_after_call(df) == df

\* self.alerts after a detection that has found the alerts `found`: the
\* detectors collect them in a local list and leave self.alerts alone
alerts_after_call(self_alerts, found) == self_alerts

CalculateDailyReturns ==
    /\ ret' = [op |-> "calculate_daily_returns",
               value |-> calculate_daily_returns(equity_df)]
    /\ equity_df' = equity_df_after_call(equity_df)
    /\ UNCHANGED <<risk_free_rate, alerts, positions, trades, daily_metrics, data_json>>

CalculatePerformance ==
    \E strategy_code \in Strategies :
        /\ ret' = [op |-> "calculate_performance",
                   strategy_code |-> strategy_code,
                   value |-> calculate_performance(equity_df, strategy_code, risk_free_rate)]
        /\ equity_df' = equity_df_after_call(equity_df)
        /\ UNCHANGED <<risk_free_rate, alerts, positions, trades, daily_metrics, data_json>>

\* one call per batch
NextMetrics == ret = NoCall /\ (CalculateDailyReturns \/ CalculatePerformance)

SpecMetrics == InitMetrics /\ [][NextMetrics]_vars

\* the records of a day: equity, deposit_withdraw, margin_used
OrderRows == {<<100, 0, 50>>, <<90, 0, 0>>, <<110, 10, 50>>, <<0, 0, 50>>}

\* a batch of equity records of one strategy, one per trading day, given in
\* any order of the days
InitOrder ==
    /\ InitEngines
    /\ \E k \in 0..MaxDays : \E p \in Permutations(1..k) :
       \E rows \in [1..k -> OrderRows] :
          equity_df = [i \in 1..k |->
                          [trade_date       |-> p[i],
                           equity           |-> rows[p[i]][1],
                           deposit_withdraw |-> rows[p[i]][2],
                           margin_used      |-> rows[p[i]][3]]]
    /\ positions = <<>>
    /\ trades = <<>>

NextOrder == ret = NoCall /\ CalculatePerformance

SpecOrder == InitOrder /\ [][NextOrder]_vars

\* ------------------------------------------------------------------------
\* Properties of MetricsCalculator
\* ------------------------------------------------------------------------
PerfCalled   == ret.op = "calculate_performance"
PerfReturned == PerfCalled /\ ret.value.tag = "PerformanceMetrics"
ReturnsCalled == ret.op = "calculate_daily_returns"

Half == Q(1, 2)
Midpoint(a, b) == Add(Mul(a, Half), Mul(b, Half))

\* C2 (as stated): the returned total_score is exactly the midpoint of the
\* returned performance_score and risk_score.
C2_ExactMidpointOfReturned ==
    PerfReturned =>
        ret.value.total_score =
            Midpoint(ret.value.performance_score, ret.value.risk_score)

\* C2 (amended): the returned total_score is the midpoint of the unrounded
\* scores rounded to 2 decimals, so with finite scores it lies within 0.01 of
\* the midpoint of the two returned (rounded) scores.
C2_MidpointUpToRounding ==
    PerfReturned =>
        LET v == performance_values(equity_df, risk_free_rate)
            r == ret.value
        IN  /\ r.total_score = Round(Midpoint(v.performance_score, v.risk_score), 2)
            /\ (IsFin(r.performance_score) /\ IsFin(r.risk_score)) =>
                  Le(AbsQ(Sub(r.total_score, Midpoint(r.performance_score, r.risk_score))),
                     Q(1, 100))

\* a result whose two returned scores add up to an odd number of hundredths
C2_Witness ==
    /\ PerfReturned
    /\ IsFin(ret.value.performance_score) /\ IsFin(ret.value.risk_score)
    /\ ret.value.total_score #
          Midpoint(ret.value.performance_score, ret.value.risk_score)

InRange(x, lo, hi) == Le(I(lo), x) /\ Le(x, I(hi))

\* C3: for a series of at least 2 records the three returned scores lie in
\* [0, 100].
C3_ScoresWithin0And100 ==
    (PerfCalled /\ Len(equity_df) >= 2) =>
        /\ InRange(ret.value.performance_score, 0, 100)
        /\ InRange(ret.value.risk_score, 0, 100)
        /\ InRange(ret.value.total_score, 0, 100)

PerfNumericFields ==
    {"total_return", "annualized_return", "sharpe_ratio", "max_drawdown",
     "calmar_ratio", "win_rate", "volatility", "avg_margin_ratio",
     "performance_score", "risk_score", "total_score"}

\* C5: no numeric field of the result, and no daily_return, drawdown or
\* max_drawdown of the table, is NaN or infinite.
C5_NoNaNNoInfinity ==
    /\ (PerfCalled /\ Len(equity_df) >= 2) =>
          \A f \in PerfNumericFields : IsFin(ret.value[f])
    /\ (ReturnsCalled /\ Len(equity_df) >= 2) =>
          \A i \in 1..Len(ret.value) :
              /\ IsFin(ret.value[i].daily_return)
              /\ IsFin(ret.value[i].drawdown)
              /\ IsFin(ret.value[i].max_drawdown)

LatestDate(df) ==
    CHOOSE d \in 1..MaxDays :
        /\ \E i \in 1..Len(df) : df[i].trade_date = d
        /\ \A i \in 1..Len(df) : df[i].trade_date <= d

\* C6: calculate_performance returns None iff the series has fewer than 2
\* records; otherwise a PerformanceMetrics with the supplied strategy_code
\* and calc_date the latest trade_date of the series.
C6_NoneIffFewerThanTwo ==
    PerfCalled =>
        /\ (ret.value = NoneResult) <=> (Len(equity_df) < 2)
        /\ Len(equity_df) >= 2 =>
              /\ ret.value.tag = "PerformanceMetrics"
              /\ ret.value.strategy_code = ret.strategy_code
              /\ ret.value.calc_date = LatestDate(equity_df)

\* a result for a series whose first record is not the earliest day
C6_Witness ==
    /\ PerfReturned
    /\ Len(equity_df) >= 2
    /\ equity_df[1].trade_date > equity_df[Len(equity_df)].trade_date
    /\ ret.value.calc_date = equity_df[1].trade_date

\* the caller's record of trading day d, and the days of the series
Rec(d) == equity_df[CHOOSE i \in 1..Len(equity_df) : equity_df[i].trade_date = d]
Days == 1..Len(equity_df)

\* (1 + s[1]) * ... * (1 + s[i])
RECURSIVE Compound(_, _)
Compound(s, i) == IF i = 0 THEN One ELSE Mul(Compound(s, i - 1), Add(One, s[i]))

\* C15: for a series of at least 2 records, total_return is the product over
\* the days, in date order, of (1 + daily_return), minus 1, which is the
\* cumulative_return of the last day of the table of calculate_daily_returns.
C15_TotalReturnCompounds ==
    PerfReturned =>
        LET t    == calculate_daily_returns(equity_df)
            dret == [i \in 1..Len(t) |-> t[i].daily_return]
            v    == performance_values(equity_df, risk_free_rate)
        IN  /\ v.total_return = Sub(Compound(dret, Len(t)), One)
            /\ v.total_return = t[Len(t)].cumulative_return
            /\ ret.value.total_return = Round(Sub(Compound(dret, Len(t)), One), 6)

\* three days of gains and losses given out of date order: 100, 90, 100
\* compound to (1 - 1/10)(1 + 1/9) - 1 = 0
C15_Witness ==
    /\ PerfReturned
    /\ Len(equity_df) = 3
    /\ equity_df[1].trade_date # 1
    /\ Rec(1).equity = 100 /\ Rec(2).equity = 90 /\ Rec(3).equity = 100
    /\ \A d \in Days : Rec(d).deposit_withdraw = 0
    /\ ret.value.total_return = Zero

\* the caller's records in date order, and in the reverse of the given order
InDateOrder == [d \in Days |-> Rec(d)]
Reversed == [i \in Days |-> equity_df[Len(equity_df) + 1 - i]]

\* C21: with pairwise distinct trade dates, calculate_performance returns for
\* the records in the given order what it returns for them in date order, so
\* the same for every order of the same records; and the same for the given
\* order reversed.
C21_SameForEveryOrder ==
    PerfCalled =>
        /\ ret.value = calculate_performance(InDateOrder, ret.strategy_code, risk_free_rate)
        /\ ret.value = calculate_performance(Reversed, ret.strategy_code, risk_free_rate)

\* three days given as day 2, day 3, day 1, the last day's equity not the
\* one of the last record given: 90, 100, 110 with a deposit of 10
C21_Witness ==
    /\ PerfReturned
    /\ Len(equity_df) = 3
    /\ equity_df[1].trade_date = 2 /\ equity_df[2].trade_date = 3
    /\ Rec(1).equity = 90 /\ Rec(2).equity = 100 /\ Rec(3).equity = 110
    /\ Rec(3).deposit_withdraw = 10
    /\ ret.value.calc_date = 3
    /\ ret.value.total_return = Round(Q(1, 9), 6)

\* the days of the table t with a gain, and with a gain or a loss
WinDays(t)    == {d \in 1..Len(t) : Gt(t[d].daily_return, Zero)}
ChangeDays(t) == {d \in 1..Len(t) : t[d].daily_return # Zero}

\* C22: the win_rate calculate_performance computes is the number of days
\* with daily_return > 0 over the number of days with daily_return # 0, days
\* of zero return, the first day among them, counting in neither; it is 0
\* when no day has a non-zero return and lies in [0, 1].  The result carries
\* it rounded to 4 decimals.
C22_WinRateOverChangeDays ==
    PerfReturned =>
        LET t == calculate_daily_returns(equity_df)
            v == metrics_of(t, risk_free_rate)
            w == Cardinality(WinDays(t))
            c == Cardinality(ChangeDays(t))
        IN  /\ 1 \notin ChangeDays(t)
            /\ WinDays(t) \subseteq ChangeDays(t)
            /\ c > 0 => v.win_rate = Q(w, c)
            /\ c = 0 => v.win_rate = Zero
            /\ Le(Zero, v.win_rate) /\ Le(v.win_rate, One)
            /\ ret.value.win_rate = Round(v.win_rate, 4)
            /\ Le(Zero, ret.value.win_rate) /\ Le(ret.value.win_rate, One)

\* 90, 90, 100: one gain in three days, two of them without change, and a
\* win_rate of 1
C22_Witness ==
    /\ PerfReturned
    /\ Len(equity_df) = 3
    /\ Rec(1).equity = 90 /\ Rec(2).equity = 90 /\ Rec(3).equity = 100
    /\ \A d \in Days : Rec(d).deposit_withdraw = 0
    /\ ret.value.win_rate = One

\* the risk score as it would be from the fields of the returned record
RiskScoreOfReturned ==
    calculate_risk_score(ret.value.avg_margin_ratio, ret.value.volatility,
                         ret.value.max_drawdown)

\* C23: calculate_performance rounds only in building the result:
\* performance_score and risk_score come from the unrounded total_return,
\* sharpe_ratio, max_drawdown, win_rate, avg_margin_ratio and volatility,
\* total_score from the unrounded two scores, sharpe_ratio and calmar_ratio
\* from the unrounded annualized_return, volatility and max_drawdown, and
\* each field of the result is its unrounded value rounded once.
C23_RoundedOnlyInTheResult ==
    PerfReturned =>
        LET m    == metrics_of(calculate_daily_returns(equity_df), risk_free_rate)
            perf == calculate_performance_score(m.total_return, m.sharpe_ratio,
                                                m.max_drawdown, m.win_rate)
            risk == calculate_risk_score(m.avg_margin_ratio, m.volatility, m.max_drawdown)
            r    == ret.value
        IN  /\ r.performance_score = Round(perf, 2)
            /\ r.risk_score = Round(risk, 2)
            /\ r.total_score = Round(Midpoint(perf, risk), 2)
            /\ r.sharpe_ratio =
                  Round(IF Gt(m.volatility, Zero)
                        THEN Div(Sub(m.annualized_return, risk_free_rate), m.volatility)
                        ELSE Zero, 4)
            /\ r.calmar_ratio =
                  Round(IF Gt(m.max_drawdown, Zero)
                        THEN Div(m.annualized_return, m.max_drawdown)
                        ELSE Zero, 4)
            /\ r.total_return = Round(m.total_return, 6)
            /\ r.annualized_return = Round(m.annualized_return, 6)
            /\ r.max_drawdown = Round(m.max_drawdown, 6)
            /\ r.win_rate = Round(m.win_rate, 4)
            /\ r.volatility = Round(m.volatility, 6)
            /\ r.avg_margin_ratio = Round(m.avg_margin_ratio, 4)

\* a result of finite fields whose risk_score is not what the rounded
\* fields of the result would give: an avg_margin_ratio of -1/6, returned as
\* -0.1667, gives a risk_score of 83.33, and 83.34 once rounded
C23_Witness ==
    /\ PerfReturned
    /\ \A f \in PerfNumericFields : IsFin(ret.value[f])
    /\ ret.value.avg_margin_ratio = Q(-1667, 10000)
    /\ ret.value.risk_score = Q(8333, 100)
    /\ Round(RiskScoreOfReturned, 2) = Q(8334, 100)

\* the running maximum of the equity up to day d, and the drawdown of day d
RunningMax(d) == CHOOSE m \in {Rec(k).equity : k \in 1..d} :
                    \A k \in 1..d : Rec(k).equity <= m
Drawdown(d) == Div(I(RunningMax(d) - Rec(d).equity), I(RunningMax(d)))

\* C16: in the table of calculate_daily_returns max_drawdown never decreases
\* along the days, is at each day the largest drawdown so far, and is 0 on
\* every day when the equity never decreases.
C16_MaxDrawdownMonotone ==
    ReturnsCalled =>
        LET t == ret.value
        IN  /\ \A i, j \in 1..Len(t) :
                  i <= j => Le(t[i].max_drawdown, t[j].max_drawdown)
            /\ \A i \in 1..Len(t) :
                  /\ \A k \in 1..i : Le(Drawdown(k), t[i].max_drawdown)
                  /\ \E k \in 1..i : Drawdown(k) = t[i].max_drawdown
            /\ (\A d \in 2..Len(t) : Rec(d - 1).equity <= Rec(d).equity) =>
                  \A i \in 1..Len(t) : t[i].max_drawdown = Zero

\* the series is at least 2 records of one positive equity, without deposits
ConstantPositiveEquity ==
    /\ Len(equity_df) >= 2
    /\ \A d \in Days : /\ Rec(d).equity = Rec(1).equity
                       /\ Rec(d).equity > 0
                       /\ Rec(d).deposit_withdraw = 0

\* C18: for a series of at least 2 records of constant positive equity and
\* zero deposits, calculate_performance returns total_return, max_drawdown,
\* volatility, sharpe_ratio, calmar_ratio and win_rate all 0.
C18_FlatSeriesIsAllZero ==
    (PerfCalled /\ ConstantPositiveEquity) =>
        /\ ret.value.tag = "PerformanceMetrics"
        /\ ret.value.total_return = Zero
        /\ ret.value.max_drawdown = Zero
        /\ ret.value.volatility = Zero
        /\ ret.value.sharpe_ratio = Zero
        /\ ret.value.calmar_ratio = Zero
        /\ ret.value.win_rate = Zero

\* the result for the series 100, 100
C18_Witness ==
    /\ PerfReturned
    /\ ConstantPositiveEquity
    /\ Len(equity_df) = 2
    /\ Rec(1).equity = 100
    /\ ret.value.sharpe_ratio = Zero

\* C20: the table of calculate_daily_returns is in date order; the first
\* day's daily_return is 0, and a later day whose previous day has non-zero
\* equity has daily_return (equity - previous equity - deposit_withdraw) /
\* previous equity.  The series 100, 90 without deposits has daily_return
\* 0, -0.1, total_return -0.1 and max_drawdown 0.1.
C20_DailyReturnFormula ==
    /\ ReturnsCalled =>
          /\ Len(ret.value) = Len(equity_df)
          /\ \A d \in Days :
                /\ ret.value[d].trade_date = d
                /\ ret.value[d].equity = Rec(d).equity
                /\ d = 1 => ret.value[d].daily_return = Zero
                /\ (d > 1 /\ Rec(d - 1).equity # 0) =>
                      ret.value[d].daily_return =
                          Q(Rec(d).equity - Rec(d - 1).equity - Rec(d).deposit_withdraw,
                            Rec(d - 1).equity)
    /\ (/\ Len(equity_df) = 2
        /\ Rec(1).equity = 100 /\ Rec(2).equity = 90
        /\ \A d \in Days : Rec(d).deposit_withdraw = 0) =>
          /\ ReturnsCalled =>
                /\ ret.value[1].daily_return = Zero
                /\ ret.value[2].daily_return = Q(-1, 10)
          /\ PerfCalled =>
                /\ ret.value.total_return = Q(-1, 10)
                /\ ret.value.max_drawdown = Q(1, 10)

\* a table of three days given out of date order, with a deposit on a later
\* day and a return on it
C20_Witness ==
    /\ ReturnsCalled
    /\ Len(equity_df) = 3
    /\ equity_df[1].trade_date # 1
    /\ Rec(1).equity = 100 /\ Rec(2).equity = 90 /\ Rec(3).equity = 100
    /\ Rec(3).deposit_withdraw = 10
    /\ ret.value[2].daily_return = Q(-1, 10)
    /\ ret.value[3].daily_return = Zero

\* ------------------------------------------------------------------------
\* BehaviorDetector
\* ------------------------------------------------------------------------
\* The literals of the source are written in English: offset_flag "open" is
\* the source's opening flag, direction "buy" / "sell" its two directions.
\* An alert's description (a formatted text of the values in details) is
\* not modelled.

\* severity of a floating loss of the given ratio
floating_severity_inclusive(loss_ratio) ==
    IF Ge(loss_ratio, Q(5, 100)) THEN "high"
    ELSE IF Ge(loss_ratio, Q(2, 100)) THEN "medium"
    ELSE "low"

floating_severity(loss_ratio) ==
    IF Gt(loss_ratio, Q(5, 100)) THEN "high"
    ELSE IF Gt(loss_ratio, Q(2, 100)) THEN "medium"
    ELSE "low"

\* the rows of day_positions a trade on the contract is checked against
contract_rows_any(day_positions, contract) == day_positions

contract_rows(day_positions, contract) ==
    SelectSeq(day_positions, LAMBDA q : q.contract = contract)

\* the alert of one opening trade against the day's positions, if any
floating_loss_alert(strategy_code, trade_date, day_positions, trade) ==
    LET contract_positions == contract_rows(day_positions, trade.contract)
        total_floating_pnl == SumInt(Column(contract_positions, "floating_pnl"))
        position_value     == SumInt(Column(contract_positions, "position_value"))
        loss_ratio         == IF position_value > 0
                              THEN Q(Abs(total_floating_pnl), position_value)
                              ELSE Zero
    IN  IF contract_positions = <<>> THEN <<>>
        ELSE IF total_floating_pnl < 0
        THEN << [strategy_code |-> strategy_code,
                 trade_date    |-> trade_date,
                 alert_type    |-> "floating_loss_add",
                 severity      |-> floating_severity(loss_ratio),
                 contract      |-> trade.contract,
                 details       |-> [floating_pnl   |-> total_floating_pnl,
                                    loss_ratio     |-> Round(loss_ratio, 4),
                                    add_quantity   |-> trade.quantity,
                                    add_direction  |-> trade.direction,
                                    add_price      |-> trade.price,
                                    position_value |-> position_value]] >>
        ELSE <<>>

\* detect_floating_loss_add
detect_floating_loss_add(pos, trd) ==
    IF pos = <<>> \/ trd = <<>> THEN <<>>
    ELSE
    LET all_dates  == SortedUnique(Column(pos, "trade_date"))
        strategies == Unique(Column(pos, "strategy_code"))
        ForDay(strategy_code, trade_date) ==
            LET day_positions ==
                    SelectSeq(pos, LAMBDA q : /\ q.strategy_code = strategy_code
                                              /\ q.trade_date = trade_date)
                day_trades ==
                    SelectSeq(trd, LAMBDA t : /\ t.strategy_code = strategy_code
                                              /\ t.trade_date = trade_date
                                              /\ t.offset_flag = "open")
            IN  IF day_positions = <<>> \/ day_trades = <<>> THEN <<>>
                ELSE Flatten([j \in 1..Len(day_trades) |->
                        floating_loss_alert(strategy_code, trade_date,
                                            day_positions, day_trades[j])])
        ForStrategy(strategy_code) ==
            Flatten([d \in 1..Len(all_dates) |-> ForDay(strategy_code, all_dates[d])])
    IN  Flatten([k \in 1..Len(strategies) |-> ForStrategy(strategies[k])])

\* one entry of price_history, built from a position row
price_info_unguarded(q) ==
    [settlement      |-> q.settlement,
     prev_settlement |-> q.prev_settlement,
     change          |-> I(q.settlement - q.prev_settlement),
     change_pct      |-> Div(I(q.settlement - q.prev_settlement), I(q.prev_settlement))]

price_info(q) ==
    [settlement      |-> q.settlement,
     prev_settlement |-> q.prev_settlement,
     change          |-> IF q.prev_settlement > 0
                         THEN I(q.settlement - q.prev_settlement) ELSE Zero,
     change_pct      |-> IF q.prev_settlement > 0
                         THEN Q(q.settlement - q.prev_settlement, q.prev_settlement)
                         ELSE Zero]

\* severity of a move of the given relative size
trend_severity_inclusive(change_pct) ==
    IF Ge(AbsQ(change_pct), Q(3, 100)) THEN "high"
    ELSE IF Ge(AbsQ(change_pct), Q(15, 1000)) THEN "medium"
    ELSE "low"

trend_severity_medium_inclusive(change_pct) ==
    IF Gt(AbsQ(change_pct), Q(3, 100)) THEN "high"
    ELSE IF Ge(AbsQ(change_pct), Q(15, 1000)) THEN "medium"
    ELSE "low"

trend_severity(change_pct) ==
    IF Gt(AbsQ(change_pct), Q(3, 100)) THEN "high"
    ELSE IF Gt(AbsQ(change_pct), Q(15, 1000)) THEN "medium"
    ELSE "low"

\* is a trade in this direction against the day's move
is_counter_trend(direction, price_change) ==
    \/ direction = "buy" /\ Lt(price_change, Zero)
    \/ direction = "sell" /\ Gt(price_change, Zero)

\* the alert of one trade of the strategy against its price history, if any
counter_trend_alert(strategy_code, strategy_positions, trade) ==
    LET rows == {i \in 1..Len(strategy_positions) :
                    /\ strategy_positions[i].contract = trade.contract
                    /\ strategy_positions[i].trade_date = trade.trade_date}
        \* a later row of the same contract and day overwrites the entry
        last == CHOOSE i \in rows : \A j \in rows : j <= i
        info == price_info(strategy_positions[last])
    IN  IF trade.offset_flag # "open" THEN <<>>
        ELSE IF rows = {} THEN <<>>
        ELSE IF is_counter_trend(trade.direction, info.change)
        THEN << [strategy_code |-> strategy_code,
                 trade_date    |-> trade.trade_date,
                 alert_type    |-> "counter_trend_add",
                 severity      |-> trend_severity(info.change_pct),
                 contract      |-> trade.contract,
                 details       |-> [direction       |-> trade.direction,
                                    price_change    |-> Round(info.change, 2),
                                    change_pct      |-> Round(info.change_pct, 4),
                                    quantity        |-> trade.quantity,
                                    price           |-> trade.price,
                                    settlement      |-> info.settlement,
                                    prev_settlement |-> info.prev_settlement]] >>
        ELSE <<>>

\* detect_counter_trend_add
detect_counter_trend_add(pos, trd) ==
    IF pos = <<>> \/ trd = <<>> THEN <<>>
    ELSE
    LET strategies == Unique(Column(pos, "strategy_code"))
        ForStrategy(strategy_code) ==
            LET strategy_positions ==
                    SelectSeq(pos, LAMBDA q : q.strategy_code = strategy_code)
                strategy_trades ==
                    SelectSeq(trd, LAMBDA t : t.strategy_code = strategy_code)
            IN  Flatten([j \in 1..Len(strategy_trades) |->
                    counter_trend_alert(strategy_code, strategy_positions,
                                        strategy_trades[j])])
    IN  Flatten([k \in 1..Len(strategies) |-> ForStrategy(strategies[k])])

\* severity_order.get(x.severity, 3)
severity_order(severity) ==
    CASE severity = "high"   -> 0
      [] severity = "medium" -> 1
      [] severity = "low"    -> 2
      [] OTHER               -> 3

\* list.sort(key = (trade_date, severity rank), reverse = True): descending in
\* the key, alerts of equal key keeping their order
sort_alerts(a) ==
    SortByKey(a, [i \in 1..Len(a) |->
                    -(a[i].trade_date * 4 + severity_order(a[i].severity))])

\* detect_all: the alerts of both detectors by strategy, each list sorted
detect_all_every_strategy(pos, trd, equity_data) ==
    LET all_alerts == detect_floating_loss_add(pos, trd) \o
                      detect_counter_trend_add(pos, trd)
        keys == {pos[i].strategy_code : i \in 1..Len(pos)}
    IN  [c \in keys |->
            sort_alerts(SelectSeq(all_alerts, LAMBDA a : a.strategy_code = c))]

detect_all(pos, trd, equity_data) ==
    LET all_alerts == detect_floating_loss_add(pos, trd) \o
                      detect_counter_trend_add(pos, trd)
        keys == {all_alerts[i].strategy_code : i \in 1..Len(all_alerts)}
    IN  [c \in keys |->
            sort_alerts(SelectSeq(all_alerts, LAMBDA a : a.strategy_code = c))]

\* min(100, floating_loss_count * 5 + counter_trend_count * 3
\*          + high_severity_count * 10)
behavior_risk_score_unbounded(floating_loss_count, counter_trend_count, high_severity_count) ==
    floating_loss_count * 5 + counter_trend_count * 3 + high_severity_count * 10

behavior_risk_score(floating_loss_count, counter_trend_count, high_severity_count) ==
    Min(100, floating_loss_count * 5 + counter_trend_count * 3
             + high_severity_count * 10)

\* get_behavior_summary
get_behavior_summary(pos, trd, equity_data) ==
    LET alerts_by_strategy == detect_all(pos, trd, equity_data)
    IN  [c \in DOMAIN alerts_by_strategy |->
            LET a == alerts_by_strategy[c]
                floating_loss_count ==
                    Len(SelectSeq(a, LAMBDA x : x.alert_type = "floating_loss_add"))
                counter_trend_count ==
                    Len(SelectSeq(a, LAMBDA x : x.alert_type = "counter_trend_add"))
                high_severity_count ==
                    Len(SelectSeq(a, LAMBDA x : x.severity = "high"))
            IN  [total_alerts            |-> Len(a),
                 floating_loss_add_count |-> floating_loss_count,
                 counter_trend_add_count |-> counter_trend_count,
                 high_severity_count     |-> high_severity_count,
                 behavior_risk_score     |->
                     behavior_risk_score(floating_loss_count, counter_trend_count,
                                         high_severity_count),
                 recent_alerts           |-> SubSeq(a, 1, Min(5, Len(a)))]]

\* ------------------------------------------------------------------------
\* The detector's inputs and calls
\* ------------------------------------------------------------------------
cu2501 == <<"c", "u", "2", "5", "0", "1">>
al2501 == <<"a", "l", "2", "5", "0", "1">>

\* what a position row says of its contract on its day: floating_pnl,
\* position_value, prev_settlement, settlement
Marks ==
    {<<-600, 10000, 100, 97>>,    \* loss of 6%, settlement down 3%
     <<-400, 10000, 100, 104>>,   \* loss of 4%, settlement up 4%
     << 200, 10000, 200, 197>>,   \* profit, settlement down 1.5%
     <<-501, 10010, 100, 100>>,   \* loss of 5.005%, settlement unchanged
     <<-100,     0,   0, 97>>}    \* loss with no position value, no previous settlement

PositionRow(strategy_code, trade_date, contract, m) ==
    [strategy_code   |-> strategy_code,
     trade_date      |-> trade_date,
     contract        |-> contract,
     long_qty        |-> 1,
     short_qty       |-> 0,
     floating_pnl    |-> m[1],
     position_value  |-> m[2],
     prev_settlement |-> m[3],
     settlement      |-> m[4]]

\* the book of S1 in cu2501 on day 1 in every state of Marks; the same
\* contract on another day, another contract and another strategy in two
BehaviorPositionRows ==
    {PositionRow("S1", 1, cu2501, m) : m \in Marks}
    \cup {PositionRow(k[1], k[2], k[3], m) :
            k \in {<<"S1", 2, cu2501>>, <<"S1", 1, al2501>>, <<"S2", 1, cu2501>>},
            m \in {<<-600, 10000, 100, 97>>, <<-400, 10000, 100, 104>>}}

TradeRow(strategy_code, trade_date, contract, direction, offset_flag) ==
    [strategy_code |-> strategy_code,
     trade_date    |-> trade_date,
     contract      |-> contract,
     direction     |-> direction,
     offset_flag   |-> offset_flag,
     quantity      |-> 3,
     price         |-> 100,
     amount        |-> 300]

BehaviorTradeRows ==
    {TradeRow(k[1], k[2], cu2501, d, "open") :
        k \in {<<"S1", 1>>, <<"S1", 2>>, <<"S2", 1>>}, d \in {"buy", "sell"}}
    \cup {TradeRow("S1", 1, cu2501, "buy", "close")}

\* a batch of at most MaxRecords position and trade records
InitBehavior ==
    /\ InitEngines
    /\ equity_df = <<>>
    /\ \E np \in 0..MaxRecords : \E nt \in 0..(MaxRecords - np) :
          /\ positions \in [1..np -> BehaviorPositionRows]
          /\ trades \in [1..nt -> BehaviorTradeRows]

DetectFloatingLossAdd ==
    /\ ret' = [op |-> "detect_floating_loss_add",
               value |-> detect_floating_loss_add(positions, trades)]
    /\ alerts' = alerts_after_call(alerts, detect_floating_loss_add(positions, trades))
    /\ UNCHANGED <<risk_free_rate, equity_df, positions, trades, daily_metrics, data_json>>

DetectCounterTrendAdd ==
    /\ ret' = [op |-> "detect_counter_trend_add",
               value |-> detect_counter_trend_add(positions, trades)]
    /\ alerts' = alerts_after_call(alerts, detect_counter_trend_add(positions, trades))
    /\ UNCHANGED <<risk_free_rate, equity_df, positions, trades, daily_metrics, data_json>>

DetectAll ==
    /\ ret' = [op |-> "detect_all",
               value |-> detect_all(positions, trades, equity_df)]
    /\ alerts' = alerts_after_call(
                     alerts_after_call(alerts, detect_floating_loss_add(positions, trades)),
                     detect_counter_trend_add(positions, trades))
    /\ UNCHANGED <<risk_free_rate, equity_df, positions, trades, daily_metrics, data_json>>

GetBehaviorSummary ==
    /\ ret' = [op |-> "get_behavior_summary",
               value |-> get_behavior_summary(positions, trades, equity_df)]
    /\ alerts' = alerts_after_call(
                     alerts_after_call(alerts, detect_floating_loss_add(positions, trades)),
                     detect_counter_trend_add(positions, trades))
    /\ UNCHANGED <<risk_free_rate, equity_df, positions, trades, daily_metrics, data_json>>

\* one call per batch
NextBehavior ==
    ret = NoCall /\ (DetectFloatingLossAdd \/ DetectCounterTrendAdd
                     \/ DetectAll \/ GetBehaviorSummary)

SpecBehavior == InitBehavior /\ [][NextBehavior]_vars

\* moves of a contract at, about and away from the two thresholds:
\* floating_pnl, position_value, prev_settlement, settlement
TrendMarks ==
    {<<0, 10000, 100, 97>>,          \* down 3%
     <<0, 10000, 200, 197>>,         \* down 1.5%
     <<0, 10000, 100000, 96996>>,    \* down 3.004%
     <<0, 10000, 100, 104>>,         \* up 4%
     <<0, 10000, 200, 203>>,         \* up 1.5%
     <<0, 10000, 100, 99>>,          \* down 1%
     <<0, 10000, 0, 97>>}            \* no previous settlement

TrendPositionRows ==
    {PositionRow("S1", 1, cu2501, m) : m \in TrendMarks}
    \cup {PositionRow("S1", 2, cu2501, m) :
            m \in {<<0, 10000, 200, 197>>, <<0, 10000, 100, 104>>}}
    \cup {PositionRow("S2", 1, cu2501, <<0, 10000, 100, 97>>)}

TrendTradeRows ==
    {TradeRow("S1", d, cu2501, dir, "open") : d \in {1, 2}, dir \in {"buy", "sell"}}
    \cup {TradeRow("S2", 1, cu2501, "buy", "open"),
          TradeRow("S1", 1, cu2501, "buy", "close")}

InitTrend ==
    /\ InitEngines
    /\ equity_df = <<>>
    /\ \E np \in 0..MaxRecords : \E nt \in 0..(MaxRecords - np) :
          /\ positions \in [1..np -> TrendPositionRows]
          /\ trades \in [1..nt -> TrendTradeRows]

NextTrend == ret = NoCall /\ DetectCounterTrendAdd

SpecTrend == InitTrend /\ [][NextTrend]_vars

\* a few position rows and up to MaxTrades opening trades on them: enough
\* alerts for the score of a strategy to pass 100
SummaryPositionRows ==
    {PositionRow("S1", 1, cu2501, <<-600, 10000, 100, 96>>),
     PositionRow("S1", 1, cu2501, <<-600, 10000, 100, 97>>),
     PositionRow("S2", 1, cu2501, <<-400, 10000, 100, 104>>)}

SummaryTradeRows ==
    {TradeRow("S1", 1, cu2501, "buy", "open"),
     TradeRow("S1", 1, cu2501, "sell", "open"),
     TradeRow("S2", 1, cu2501, "sell", "open")}

InitSummary ==
    /\ InitEngines
    /\ equity_df = <<>>
    /\ \E np \in 1..2 : positions \in [1..np -> SummaryPositionRows]
    /\ \E nt \in 0..MaxTrades : trades \in [1..nt -> SummaryTradeRows]

NextSummary == ret = NoCall /\ GetBehaviorSummary

SpecSummary == InitSummary /\ [][NextSummary]_vars

\* ------------------------------------------------------------------------
\* The daily risk metrics' inputs and calls
\* ------------------------------------------------------------------------
CU2502 == <<"C", "U", "2", "5", "0", "2">>
zn2501 == <<"z", "n", "2", "5", "0", "1">>
m2501c == <<"m", "2", "5", "0", "1", "c">>

DailyPositionRow(trade_date, contract, long_qty, short_qty, position_value) ==
    [strategy_code   |-> "S1",
     trade_date      |-> trade_date,
     contract        |-> contract,
     long_qty        |-> long_qty,
     short_qty       |-> short_qty,
     floating_pnl    |-> 0,
     position_value  |-> position_value,
     prev_settlement |-> 100,
     settlement      |-> 100]

DailyPositionRows ==
    {DailyPositionRow(1, cu2501, 1, 0, 300),    \* long
     DailyPositionRow(1, CU2502, 0, 1, 100),    \* short, the same product
     DailyPositionRow(1, al2501, 1, 1, 100),    \* long and short at once
     DailyPositionRow(1, al2501, 0, 0, 300),    \* neither long nor short
     DailyPositionRow(1, zn2501, 0, 1, 100),
     DailyPositionRow(1, m2501c, 1, 0, 100),    \* a letter after the digits
     DailyPositionRow(1, cu2501, 0, 1, 300),
     DailyPositionRow(2, cu2501, 1, 0, 100)}    \* another day

DailyTradeRows ==
    {[TradeRow("S1", 1, cu2501, "buy", "open") EXCEPT !.amount = a] : a \in {300, 500}}
    \cup {TradeRow("S1", 2, cu2501, "buy", "open")}

EquityRowsOfDay ==
    [strategy_code : Strategies, trade_date : {1, 2}, equity : {-100, 0, 100},
     margin_used : {50}]

InitDaily ==
    /\ InitEngines
    /\ equity_df = <<>>
    /\ \E np \in 0..MaxRecords : \E nt \in 0..(MaxRecords - np) :
          /\ positions \in [1..np -> DailyPositionRows]
          /\ trades \in [1..nt -> DailyTradeRows]

CalculateDailyMetrics ==
    \E equity_row \in EquityRowsOfDay :
        /\ ret' = [op |-> "calculate_daily_metrics",
                   equity_row |-> equity_row,
                   value |-> calculate_daily_metrics(equity_row, positions, trades)]
        /\ UNCHANGED <<risk_free_rate, alerts, equity_df, positions, trades,
                       daily_metrics, data_json>>

\* one call per batch
NextDaily == ret = NoCall /\ CalculateDailyMetrics

SpecDaily == InitDaily /\ [][NextDaily]_vars

\* positions in futures of one product under codes of either case, and in a
\* future and an option on it, whose code ends in a letter
m2501 == <<"m", "2", "5", "0", "1">>

RootsPositionRows ==
    {DailyPositionRow(1, cu2501, 1, 0, 300),
     DailyPositionRow(1, CU2502, 1, 0, 100),
     DailyPositionRow(1, m2501, 1, 0, 100),
     DailyPositionRow(1, m2501c, 1, 0, 200),
     DailyPositionRow(1, al2501, 0, 1, 100),
     DailyPositionRow(2, zn2501, 1, 0, 100)}

InitRoots ==
    /\ InitEngines
    /\ equity_df = <<>>
    /\ \E np \in 0..MaxRecords : positions \in [1..np -> RootsPositionRows]
    /\ trades = <<>>

NextRoots == ret = NoCall /\ CalculateDailyMetrics

SpecRoots == InitRoots /\ [][NextRoots]_vars

\* ------------------------------------------------------------------------
\* The callers of calculate_daily_metrics: the uploader and the export
\* ------------------------------------------------------------------------
\* self.strategy_id_map once ensure_strategies has run on the strategy codes
\* of the equity records
strategy_id_map == [c \in Strategies |-> <<"id", c>>]

\* the record of the table daily_metrics for a DailyMetrics
daily_metrics_record(strategy_id, dm) ==
    [strategy_id          |-> strategy_id,
     trade_date           |-> dm.trade_date,
     margin_ratio         |-> dm.margin_ratio,
     long_exposure        |-> dm.long_exposure,
     short_exposure       |-> dm.short_exposure,
     net_exposure         |-> dm.net_exposure,
     gross_exposure       |-> dm.gross_exposure,
     total_position_value |-> dm.total_position_value,
     top1_concentration   |-> dm.top1_concentration,
     top3_concentration   |-> dm.top3_concentration,
     position_count       |-> dm.position_count,
     trade_count          |-> dm.trade_count,
     turnover             |-> dm.turnover]

\* upload_daily_metrics: the records it builds, one per equity row with a
\* result, each from all the positions and all the trades it was given
upload_records(equity_rows, positions_list, trades_list) ==
    Flatten([i \in 1..Len(equity_rows) |->
        LET row   == equity_rows[i]
            daily == calculate_daily_metrics(row, positions_list, trades_list)
        IN  IF row.strategy_code \notin DOMAIN strategy_id_map THEN <<>>
            ELSE IF daily = NoneResult THEN <<>>
            ELSE <<daily_metrics_record(strategy_id_map[row.strategy_code], daily)>>])

\* table.upsert(batch, on_conflict = 'strategy_id,trade_date')
RECURSIVE upsert(_, _)
upsert(table, batch) ==
    IF batch = <<>> THEN table
    ELSE LET key == <<batch[1].strategy_id, batch[1].trade_date>>
         IN  upsert([k \in DOMAIN table \cup {key} |->
                        IF k = key THEN batch[1] ELSE table[k]],
                    Tail(batch))

\* the entry of 'risk' for a DailyMetrics
risk_record(dm) ==
    [strategy_code      |-> dm.strategy_code,
     margin_ratio       |-> dm.margin_ratio,
     net_exposure       |-> dm.net_exposure,
     gross_exposure     |-> dm.gross_exposure,
     top1_concentration |-> dm.top1_concentration,
     position_count     |-> dm.position_count,
     trade_count        |-> dm.trade_count,
     turnover           |-> dm.turnover]

\* main of export_data.py, part 3: the risk metrics of the latest day, each
\* strategy's from its own positions and trades
export_risk_data(equity_rows, position_dicts, trade_dicts) ==
    LET latest_date == calc_date_of(equity_rows)
        strategies  == Unique(Column(equity_rows, "strategy_code"))
    IN  Flatten([k \in 1..Len(strategies) |->
            LET strategy_equity ==
                    SelectSeq(equity_rows, LAMBDA e : /\ e.strategy_code = strategies[k]
                                                      /\ e.trade_date = latest_date)
                strategy_positions ==
                    SelectSeq(position_dicts, LAMBDA q : q.strategy_code = strategies[k])
                strategy_trades ==
                    SelectSeq(trade_dicts, LAMBDA t : t.strategy_code = strategies[k])
                daily == calculate_daily_metrics(strategy_equity[1], strategy_positions,
                                                 strategy_trades)
            IN  IF strategy_equity = <<>> THEN <<>>
                ELSE IF daily = NoneResult THEN <<>>
                ELSE <<risk_record(daily)>>])

\* the equity rows of two strategies over two days
UploadEquityRows ==
    [strategy_code : Strategies, trade_date : {1, 2}, equity : {0, 100},
     deposit_withdraw : {0}, margin_used : {50}]

UploadPositionRows ==
    {[DailyPositionRow(1, cu2501, 1, 0, 300) EXCEPT !.strategy_code = "S1"],
     [DailyPositionRow(2, cu2501, 1, 0, 100) EXCEPT !.strategy_code = "S1"],
     [DailyPositionRow(1, al2501, 1, 0, 100) EXCEPT !.strategy_code = "S2"],
     [DailyPositionRow(1, cu2501, 0, 1, 100) EXCEPT !.strategy_code = "S2"]}

UploadTradeRows ==
    {[TradeRow("S1", 1, cu2501, "buy", "open") EXCEPT !.amount = 300],
     [TradeRow("S2", 1, cu2501, "sell", "open") EXCEPT !.amount = 500]}

\* what parse_all returns: at most one equity row per strategy and day, and
\* the positions and trades of all the strategies together
InitUpload ==
    /\ InitEngines
    /\ \E ne \in 0..2 :
          /\ equity_df \in [1..ne -> UploadEquityRows]
          /\ \A i, j \in 1..ne :
                (/\ equity_df[i].strategy_code = equity_df[j].strategy_code
                 /\ equity_df[i].trade_date = equity_df[j].trade_date) => i = j
    /\ \E np \in 0..(MaxRecords - 2) : positions \in [1..np -> UploadPositionRows]
    /\ \E nt \in 0..1 : trades \in [1..nt -> UploadTradeRows]

\* upload_daily_metrics: the records go to the table in one batch, which the
\* database takes or refuses
UploadDailyMetrics ==
    LET records == upload_records(equity_df, positions, trades)
    IN  \E accepted \in BOOLEAN :
            /\ daily_metrics' = IF accepted THEN upsert(daily_metrics, records)
                                 ELSE daily_metrics
            /\ ret' = [op |-> "upload_daily_metrics",
                       value |-> IF accepted THEN Len(records) ELSE 0]
            /\ UNCHANGED <<risk_free_rate, alerts, equity_df, positions, trades, data_json>>

\* main of export_data.py, as far as 'risk' goes; without equity records it
\* fails before it writes
ExportMain ==
    /\ equity_df # <<>>
    /\ data_json' = [written |-> TRUE,
                     risk    |-> export_risk_data(equity_df, positions, trades)]
    /\ ret' = [op |-> "export_main", value |-> NoneResult]
    /\ UNCHANGED <<risk_free_rate, alerts, equity_df, positions, trades, daily_metrics>>

NextUpload == UploadDailyMetrics \/ ExportMain

SpecUpload == InitUpload /\ [][NextUpload]_vars

\* ------------------------------------------------------------------------
\* Calls of both engines one after another on the same inputs
\* ------------------------------------------------------------------------
\* a position row that raises both alerts for an opening buy, held long
CallsPositionRows ==
    {[DailyPositionRow(1, cu2501, 1, 0, 10000)
         EXCEPT !.floating_pnl = -600, !.settlement = 97],
     [DailyPositionRow(1, al2501, 1, 1, 10000)
         EXCEPT !.floating_pnl = 200, !.settlement = 104]}

CallsTradeRows ==
    {TradeRow("S1", 1, cu2501, "buy", "open"),
     TradeRow("S1", 1, al2501, "sell", "open")}

\* two equity records in or out of date order, and at most one position
\* and one trade record
InitCalls ==
    /\ InitEngines
    /\ \E r \in {0, 1} : \E e \in [1..2 -> EquityVals] :
          equity_df = [i \in 1..2 |->
                          [trade_date       |-> Rotated(2, r)[i],
                           equity           |-> e[Rotated(2, r)[i]],
                           deposit_withdraw |-> 0,
                           margin_used      |-> 50]]
    /\ \E np \in 0..1 : positions \in [1..np -> CallsPositionRows]
    /\ \E nt \in 0..1 : trades \in [1..nt -> CallsTradeRows]

\* any call after any call
NextCalls ==
    \/ CalculateDailyReturns
    \/ CalculatePerformance
    \/ CalculateDailyMetrics
    \/ DetectFloatingLossAdd
    \/ DetectCounterTrendAdd
    \/ DetectAll
    \/ GetBehaviorSummary

SpecCalls == InitCalls /\ [][NextCalls]_vars

\* ------------------------------------------------------------------------
\* Properties of calculate_daily_metrics
\* ------------------------------------------------------------------------
DailyCalled == ret.op = "calculate_daily_metrics"

\* C7: calculate_daily_metrics returns None iff the row's equity is <= 0;
\* otherwise a DailyMetrics of the row's strategy_code and trade_date,
\* whatever the positions and trades.
C7_NoneIffEquityNotPositive ==
    DailyCalled =>
        /\ (ret.value = NoneResult) <=> (ret.equity_row.equity <= 0)
        /\ ret.equity_row.equity > 0 =>
              /\ ret.value.tag = "DailyMetrics"
              /\ ret.value.strategy_code = ret.equity_row.strategy_code
              /\ ret.value.trade_date = ret.equity_row.trade_date

\* no result for a row of equity exactly 0
C7_Witness ==
    /\ DailyCalled
    /\ ret.equity_row.equity = 0
    /\ ret.value = NoneResult
    /\ positions # <<>>

\* the sum of f over the set S
RECURSIVE SumOver(_, _)
SumOver(S, f) ==
    IF S = {} THEN 0
    ELSE LET x == CHOOSE y \in S : TRUE IN f[x] + SumOver(S \ {x}, f)

\* the position rows of the day of the call, and sums of their values
DayRows == {i \in 1..Len(positions) : positions[i].trade_date = ret.equity_row.trade_date}
DayValue(rows) == SumOver(rows, [i \in rows |-> positions[i].position_value])
LongValue  == DayValue({i \in DayRows : positions[i].long_qty > 0})
ShortValue == DayValue({i \in DayRows : positions[i].short_qty > 0})
Roots == {contract_base(positions[i].contract) : i \in DayRows}
RootValue(b) == DayValue({i \in DayRows : contract_base(positions[i].contract) = b})
DailyReturned == DailyCalled /\ ret.value # NoneResult

\* C12 (as stated): in every DailyMetrics returned, top1_concentration >=
\* top3_concentration.
C12_Top1AtLeastTop3 ==
    DailyReturned => Ge(ret.value.top1_concentration, ret.value.top3_concentration)

\* C12 (amended): in every DailyMetrics returned, top1_concentration <=
\* top3_concentration (position values being non-negative): the largest
\* root is one of the three largest.
C12_Top1AtMostTop3 ==
    DailyReturned => Le(ret.value.top1_concentration, ret.value.top3_concentration)

\* positions in four roots: the largest holds less than the three largest,
\* which hold less than all
C12_Witness ==
    /\ DailyReturned
    /\ ret.value.position_count = 4
    /\ Lt(Zero, ret.value.top1_concentration)
    /\ Lt(ret.value.top1_concentration, ret.value.top3_concentration)
    /\ Lt(ret.value.top3_concentration, One)

\* C13: in every DailyMetrics returned with total_position_value > 0, both
\* concentrations lie in [0, 1] and the values of the roots add up to
\* total_position_value (their fractions to exactly 1); and both
\* concentrations are 0 when total_position_value is 0.
C13_ConcentrationsAreFractions ==
    DailyReturned =>
        /\ Gt(ret.value.total_position_value, Zero) =>
              /\ Le(Zero, ret.value.top1_concentration)
              /\ Le(ret.value.top1_concentration, One)
              /\ Le(Zero, ret.value.top3_concentration)
              /\ Le(ret.value.top3_concentration, One)
              /\ I(SumOver(Roots, [b \in Roots |-> RootValue(b)]))
                    = ret.value.total_position_value
        /\ ret.value.total_position_value = Zero =>
              /\ ret.value.top1_concentration = Zero
              /\ ret.value.top3_concentration = Zero

\* C14: in every DailyMetrics returned, long_exposure and short_exposure are
\* the sums of position_value over the day's rows with long_qty > 0 and with
\* short_qty > 0, total_position_value is their sum, and gross_exposure and
\* net_exposure are their sum and their difference over the equity, each
\* rounded as the result is.
C14_ExposuresOverEquity ==
    DailyReturned =>
        LET equity == ret.equity_row.equity
        IN  /\ ret.value.long_exposure = I(LongValue)
            /\ ret.value.short_exposure = I(ShortValue)
            /\ ret.value.total_position_value = I(LongValue + ShortValue)
            /\ ret.value.gross_exposure = Round(Q(LongValue + ShortValue, equity), 6)
            /\ ret.value.net_exposure = Round(Q(LongValue - ShortValue, equity), 6)

\* a day with a row held long and short at once, a row of another day left
\* out, and the net exposure below zero
C14_Witness ==
    /\ DailyReturned
    /\ \E i \in DayRows : positions[i].long_qty > 0 /\ positions[i].short_qty > 0
    /\ \E i \in 1..Len(positions) : i \notin DayRows
    /\ Lt(ret.value.net_exposure, Zero)
    /\ Gt(ret.value.long_exposure, Zero)

\* what row i adds to the long side and to the short side
LongPart(i)  == IF positions[i].long_qty > 0 THEN positions[i].position_value ELSE 0
ShortPart(i) == IF positions[i].short_qty > 0 THEN positions[i].position_value ELSE 0

\* the largest of a set of numbers
Largest(values) == CHOOSE v \in values : \A w \in values : w <= v

\* C24: in every DailyMetrics returned, a row of the day held long and short
\* adds its position_value to long_exposure and to short_exposure, so twice
\* to total_position_value and nothing to the numerator of net_exposure, and
\* once to the value of its root; a row held on one side adds to that side
\* only; rows of other days add to nothing.
C24_HedgeCountsOnBothSides ==
    DailyReturned =>
        LET equity == ret.equity_row.equity
            rows   == DayRows
            base   == [i \in 1..Len(positions) |-> contract_base(positions[i].contract)]
                      \o <<>>
            roots  == {base[i] : i \in rows}
            values == {DayValue({i \in rows : base[i] = b}) : b \in roots}
            long   == SumOver(rows, [i \in rows |-> LongPart(i)])
            short  == SumOver(rows, [i \in rows |-> ShortPart(i)])
            both   == SumOver(rows, [i \in rows |-> LongPart(i) + ShortPart(i)])
            net    == SumOver(rows, [i \in rows |-> LongPart(i) - ShortPart(i)])
        IN  /\ ret.value.long_exposure = I(long)
            /\ ret.value.short_exposure = I(short)
            /\ ret.value.total_position_value = I(both)
            /\ ret.value.net_exposure = Round(Q(net, equity), 6)
            /\ ret.value.position_count = Cardinality(roots)
            /\ (roots # {} /\ both > 0) =>
                  ret.value.top1_concentration = Round(Q(Largest(values), both), 4)
            /\ (\A i \in rows : positions[i].long_qty > 0 /\ positions[i].short_qty > 0) =>
                  /\ ret.value.long_exposure = ret.value.short_exposure
                  /\ ret.value.net_exposure = Zero
                  /\ ret.value.total_position_value = I(2 * DayValue(rows))

\* a single row of the day, held long and short and worth 100, beside a row
\* of another day: 100 on each side, 200 in all, nothing net, and the root
\* holding one half
C24_Witness ==
    /\ DailyReturned
    /\ Cardinality(DayRows) = 1
    /\ \A i \in DayRows : /\ positions[i].long_qty > 0 /\ positions[i].short_qty > 0
                          /\ positions[i].position_value = 100
    /\ \E i \in 1..Len(positions) : i \notin DayRows
    /\ ret.value.long_exposure = I(100)
    /\ ret.value.short_exposure = I(100)
    /\ ret.value.total_position_value = I(200)
    /\ ret.value.net_exposure = Zero
    /\ ret.value.top1_concentration = Q(1, 2)

\* the leading letters of a contract code, in upper case
RECURSIVE LeadingLetters(_)
LeadingLetters(contract) ==
    IF contract = <<>> \/ ~IsAlpha(contract[1]) THEN <<>>
    ELSE <<Upper(contract[1])>> \o LeadingLetters(Tail(contract))

\* the day's roots by leading letters, the value of one, and the largest sum
\* of the values of up to three of them
PrefixRoots == {LeadingLetters(positions[i].contract) : i \in DayRows}
PrefixRootValue(b) == DayValue({i \in DayRows : LeadingLetters(positions[i].contract) = b})
PrefixTop(n) ==
    LET sums == {SumOver(S, [b \in S |-> PrefixRootValue(b)]) :
                    S \in {T \in SUBSET PrefixRoots : Cardinality(T) <= n}}
    IN  CHOOSE v \in sums : \A w \in sums : w <= v

\* C25: in every DailyMetrics returned, the rows of the day are grouped by
\* the leading letters of the contract code, whatever their case and
\* whatever follows the first digit: position_count is the number of such
\* roots, top1_concentration the largest value of a root and
\* top3_concentration the sum of the up to three largest, over
\* total_position_value.
C25_RootIsLeadingLetters ==
    DailyReturned =>
        /\ ret.value.position_count = Cardinality(PrefixRoots)
        /\ (PrefixRoots # {} /\ Gt(ret.value.total_position_value, Zero)) =>
              /\ ret.value.top1_concentration
                    = Round(Div(I(PrefixTop(1)), ret.value.total_position_value), 4)
              /\ ret.value.top3_concentration
                    = Round(Div(I(PrefixTop(3)), ret.value.total_position_value), 4)

\* the strategy's own positions and trades, its equity row of a day, and
\* the DailyMetrics of that row from the strategy's own rows alone
OwnPositions(c) == SelectSeq(positions, LAMBDA q : q.strategy_code = c)
OwnTrades(c)    == SelectSeq(trades, LAMBDA t : t.strategy_code = c)
EquityRowOf(c, d) ==
    equity_df[CHOOSE i \in 1..Len(equity_df) :
                 equity_df[i].strategy_code = c /\ equity_df[i].trade_date = d]
OwnDailyMetrics(c, d) ==
    calculate_daily_metrics(EquityRowOf(c, d), OwnPositions(c), OwnTrades(c))

\* C27: the daily metrics uploaded or exported for a strategy and a day are
\* those of the strategy's own positions and trades of that day: positions
\* and trades of another strategy change none of them.
C27_OwnRowsOnly ==
    /\ \A c \in Strategies, d \in {1, 2} :
          <<strategy_id_map[c], d>> \in DOMAIN daily_metrics =>
              daily_metrics[<<strategy_id_map[c], d>>]
                  = daily_metrics_record(strategy_id_map[c], OwnDailyMetrics(c, d))
    /\ \A i \in 1..Len(data_json.risk) :
          data_json.risk[i] = risk_record(OwnDailyMetrics(data_json.risk[i].strategy_code,
                                                          calc_date_of(equity_df)))

\* ------------------------------------------------------------------------
\* Properties of BehaviorDetector
\* ------------------------------------------------------------------------
\* the position rows of a strategy in a contract on a day
RowsOf(strategy_code, trade_date, contract) ==
    {i \in 1..Len(positions) :
        /\ positions[i].strategy_code = strategy_code
        /\ positions[i].trade_date = trade_date
        /\ positions[i].contract = contract}

PnlOf(rows)   == SumOver(rows, [i \in rows |-> positions[i].floating_pnl])
ValueOf(rows) == SumOver(rows, [i \in rows |-> positions[i].position_value])

\* rank of a severity, the most severe first
Rank(severity) == IF severity = "high" THEN 0 ELSE IF severity = "medium" THEN 1 ELSE 2

\* C1: in every list of detect_all, an alert listed before another is of a
\* later or the same day, and on the same day it is at least as severe.
C1_RecentAndSevereFirst ==
    ret.op = "detect_all" =>
        \A c \in DOMAIN ret.value :
            \A i, j \in 1..Len(ret.value[c]) :
                i < j =>
                    LET a == ret.value[c][i]
                        b == ret.value[c][j]
                    IN  /\ a.trade_date >= b.trade_date
                        /\ a.trade_date = b.trade_date =>
                              Rank(a.severity) <= Rank(b.severity)

\* the opening trades made while the strategy's positions in the contract
\* show a floating loss that day
AddsToLoss(t) ==
    LET rows == RowsOf(t.strategy_code, t.trade_date, t.contract)
    IN  /\ t.offset_flag = "open"
        /\ rows # {}
        /\ PnlOf(rows) < 0

\* C8: detect_floating_loss_add returns exactly one alert per opening trade
\* made on a floating loss, however many position rows match it.
C8_OneAlertPerQualifyingTrade ==
    ret.op = "detect_floating_loss_add" =>
        /\ Len(ret.value) = Cardinality({j \in 1..Len(trades) : AddsToLoss(trades[j])})
        /\ \A sc \in Strategies, d \in {1, 2}, c \in {cu2501, al2501} :
              Cardinality({i \in 1..Len(ret.value) :
                              /\ ret.value[i].strategy_code = sc
                              /\ ret.value[i].trade_date = d
                              /\ ret.value[i].contract = c})
              = Cardinality({j \in 1..Len(trades) :
                              /\ AddsToLoss(trades[j])
                              /\ trades[j].strategy_code = sc
                              /\ trades[j].trade_date = d
                              /\ trades[j].contract = c})

\* one alert for a trade that two position rows match, none for a closing trade
C8_Witness ==
    /\ ret.op = "detect_floating_loss_add"
    /\ Len(ret.value) = 1
    /\ \E j \in 1..Len(trades) :
          /\ AddsToLoss(trades[j])
          /\ Cardinality(RowsOf(trades[j].strategy_code, trades[j].trade_date,
                                trades[j].contract)) = 2
    /\ \E j \in 1..Len(trades) : trades[j].offset_flag = "close"

ExactLossRatio(a) ==
    LET rows == RowsOf(a.strategy_code, a.trade_date, a.contract)
    IN  IF ValueOf(rows) > 0 THEN Q(Abs(PnlOf(rows)), ValueOf(rows)) ELSE Zero

SeverityOfLoss(ratio) ==
    IF Gt(ratio, Q(5, 100)) THEN "high"
    ELSE IF Gt(ratio, Q(2, 100)) /\ Le(ratio, Q(5, 100)) THEN "medium"
    ELSE "low"

\* C9 (as stated): the loss_ratio of each floating-loss-add alert is the
\* loss over the position value (0 when that is <= 0), and its severity is
\* high, medium or low as that loss_ratio is > 5%, in (2%, 5%] or below.
C9_LossRatioExact ==
    ret.op = "detect_floating_loss_add" =>
        \A i \in 1..Len(ret.value) :
            LET a == ret.value[i]
            IN  /\ a.details.loss_ratio = ExactLossRatio(a)
                /\ a.severity = SeverityOfLoss(a.details.loss_ratio)

\* C9 (amended): the loss_ratio recorded in the alert is that ratio rounded
\* to 4 decimals; the severity is decided by the ratio before rounding.
C9_LossRatioRounded ==
    ret.op = "detect_floating_loss_add" =>
        \A i \in 1..Len(ret.value) :
            LET a == ret.value[i]
            IN  /\ a.details.loss_ratio = Round(ExactLossRatio(a), 4)
                /\ a.severity = SeverityOfLoss(ExactLossRatio(a))

\* an alert whose recorded loss_ratio is 0.05 and whose severity is high,
\* and the alert of the loss of 600 on 10000
C9_Witness ==
    /\ ret.op = "detect_floating_loss_add"
    /\ \E i \in 1..Len(ret.value) :
          /\ ret.value[i].details.loss_ratio = Q(5, 100)
          /\ ret.value[i].severity = "high"
    /\ \E i \in 1..Len(ret.value) :
          /\ ret.value[i].details.floating_pnl = -600
          /\ ret.value[i].details.position_value = 10000
          /\ ret.value[i].details.loss_ratio = Q(6, 100)
          /\ ret.value[i].severity = "high"

\* the move of a contract on a day as the strategy's position row of that day
\* gives it (the last row, should several rows be of that contract and day)
MoveOf(rows) ==
    LET q == positions[CHOOSE i \in rows : \A j \in rows : j <= i]
    IN  IF q.prev_settlement > 0 THEN q.settlement - q.prev_settlement ELSE 0

AgainstTheMove(t) ==
    LET rows == RowsOf(t.strategy_code, t.trade_date, t.contract)
    IN  /\ t.offset_flag = "open"
        /\ rows # {}
        /\ \/ t.direction = "buy" /\ MoveOf(rows) < 0
           \/ t.direction = "sell" /\ MoveOf(rows) > 0

\* C10: detect_counter_trend_add alerts on a trade iff it is an opening
\* trade, the strategy has a position row of the contract that day, and it
\* buys on a fall or sells on a rise, the change being 0 when
\* prev_settlement <= 0.
C10_AlertIffAgainstTheMove ==
    ret.op = "detect_counter_trend_add" =>
        /\ Len(ret.value) = Cardinality({j \in 1..Len(trades) : AgainstTheMove(trades[j])})
        /\ \A sc \in Strategies, d \in {1, 2}, dir \in {"buy", "sell"} :
              Cardinality({i \in 1..Len(ret.value) :
                              /\ ret.value[i].strategy_code = sc
                              /\ ret.value[i].trade_date = d
                              /\ ret.value[i].contract = cu2501
                              /\ ret.value[i].details.direction = dir})
              = Cardinality({j \in 1..Len(trades) :
                              /\ AgainstTheMove(trades[j])
                              /\ trades[j].strategy_code = sc
                              /\ trades[j].trade_date = d
                              /\ trades[j].direction = dir})

\* an alert for one trade, none for an opening trade on a row without
\* previous settlement
C10_Witness ==
    /\ ret.op = "detect_counter_trend_add"
    /\ Len(ret.value) = 1
    /\ \E j \in 1..Len(trades) :
          LET rows == RowsOf(trades[j].strategy_code, trades[j].trade_date,
                             trades[j].contract)
          IN  /\ trades[j].offset_flag = "open"
              /\ rows # {}
              /\ \A i \in rows : positions[i].prev_settlement <= 0

\* a single position row with prev_settlement 100 and settlement 97, and a
\* single trade: an opening buy of that strategy, contract and day
FallOfThreePercent ==
    /\ Len(positions) = 1
    /\ positions[1].prev_settlement = 100
    /\ positions[1].settlement = 97
    /\ Len(trades) = 1
    /\ trades[1].strategy_code = positions[1].strategy_code
    /\ trades[1].trade_date = positions[1].trade_date
    /\ trades[1].contract = positions[1].contract
    /\ trades[1].offset_flag = "open"
    /\ trades[1].direction = "buy"

\* C11 (as stated): for a position with prev_settlement 100 and settlement 97
\* and an opening buy on it, detect_counter_trend_add returns exactly one
\* alert, with change_pct -0.03 and severity high.
C11_ThreePercentFallIsHigh ==
    (ret.op = "detect_counter_trend_add" /\ FallOfThreePercent) =>
        /\ Len(ret.value) = 1
        /\ ret.value[1].details.change_pct = Q(-3, 100)
        /\ ret.value[1].severity = "high"

\* C11 (amended): that call returns exactly one alert, with change_pct -0.03
\* and severity medium, a move of exactly 3% not being above 3%; and every
\* alert on a row with prev_settlement 100 and settlement 97 has that
\* change_pct and that severity.
C11_ThreePercentFallIsMedium ==
    ret.op = "detect_counter_trend_add" =>
        /\ FallOfThreePercent =>
              /\ Len(ret.value) = 1
              /\ ret.value[1].alert_type = "counter_trend_add"
              /\ ret.value[1].details.change_pct = Q(-3, 100)
              /\ ret.value[1].severity = "medium"
        /\ \A i \in 1..Len(ret.value) :
              (/\ ret.value[i].details.prev_settlement = 100
               /\ ret.value[i].details.settlement = 97) =>
                  /\ ret.value[i].details.direction = "buy"
                  /\ ret.value[i].details.change_pct = Q(-3, 100)
                  /\ ret.value[i].severity = "medium"

\* the call on the single row and the single opening buy has returned
C11_Witness ==
    /\ ret.op = "detect_counter_trend_add"
    /\ FallOfThreePercent
    /\ Len(ret.value) = 1
    /\ ret.value[1].severity = "medium"

\* the relative move of the alert's contract on its day, by the strategy's
\* position row of that contract and day (the last, should there be several)
ExactChangePct(a) ==
    LET rows == RowsOf(a.strategy_code, a.trade_date, a.contract)
        q    == positions[CHOOSE i \in rows : \A j \in rows : j <= i]
    IN  Div(I(q.settlement - q.prev_settlement), I(q.prev_settlement))

SeverityOfMove(change_pct) ==
    IF Gt(AbsQ(change_pct), Q(3, 100)) THEN "high"
    ELSE IF Gt(AbsQ(change_pct), Q(15, 1000)) /\ Le(AbsQ(change_pct), Q(3, 100))
    THEN "medium"
    ELSE "low"

\* C26 (as stated): the change_pct of every counter-trend-add alert is
\* (settlement - prev_settlement) / prev_settlement of the position row of the
\* contract and day, and its severity is high, medium or low as the absolute
\* value of that change_pct is > 3%, in (1.5%, 3%] or below.
C26_SeverityOfRecordedChange ==
    ret.op = "detect_counter_trend_add" =>
        \A i \in 1..Len(ret.value) :
            LET a == ret.value[i]
            IN  /\ a.details.change_pct = ExactChangePct(a)
                /\ a.severity = SeverityOfMove(a.details.change_pct)

\* C26 (amended): the alert records that quotient rounded to 4 decimals; the
\* severity is decided by the quotient before rounding, both thresholds
\* exclusive: a move of exactly 3% is medium, one of exactly 1.5% is low.
C26_SeverityOfUnroundedChange ==
    ret.op = "detect_counter_trend_add" =>
        \A i \in 1..Len(ret.value) :
            LET a == ret.value[i]
                x == ExactChangePct(a)
            IN  /\ a.alert_type = "counter_trend_add"
                /\ a.details.change_pct = Round(x, 4)
                /\ a.severity = SeverityOfMove(x)
                /\ AbsQ(x) = Q(3, 100) => a.severity = "medium"
                /\ AbsQ(x) = Q(15, 1000) => a.severity = "low"

\* an alert of severity high whose recorded change_pct is -0.03, the move
\* being 3.004%, beside an alert of severity low on a move of exactly 1.5%
C26_Witness ==
    /\ ret.op = "detect_counter_trend_add"
    /\ \E i \in 1..Len(ret.value) :
          /\ ret.value[i].details.change_pct = Q(-3, 100)
          /\ ret.value[i].details.settlement = 96996
          /\ ret.value[i].severity = "high"
    /\ \E i \in 1..Len(ret.value) :
          /\ ExactChangePct(ret.value[i]) = Q(-15, 1000)
          /\ ret.value[i].severity = "low"

\* the number of alerts of the strategy in a list of alerts
AlertsOf(found, strategy_code) ==
    Cardinality({i \in 1..Len(found) : found[i].strategy_code = strategy_code})

\* C17: for every strategy of the result of get_behavior_summary,
\* behavior_risk_score is the smaller of 100 and 5 * floating_loss_add_count
\* + 3 * counter_trend_add_count + 10 * high_severity_count, so within
\* [0, 100], and total_alerts is the sum of the two counts, which are the
\* numbers of alerts of the two detectors for the strategy.
C17_RiskScoreCappedAt100 ==
    ret.op = "get_behavior_summary" =>
        \A c \in DOMAIN ret.value :
            LET s   == ret.value[c]
                raw == 5 * s.floating_loss_add_count + 3 * s.counter_trend_add_count
                       + 10 * s.high_severity_count
            IN  /\ s.behavior_risk_score = IF raw > 100 THEN 100 ELSE raw
                /\ s.behavior_risk_score >= 0
                /\ s.behavior_risk_score <= 100
                /\ s.total_alerts = s.floating_loss_add_count + s.counter_trend_add_count
                /\ s.floating_loss_add_count =
                      AlertsOf(detect_floating_loss_add(positions, trades), c)
                /\ s.counter_trend_add_count =
                      AlertsOf(detect_counter_trend_add(positions, trades), c)
                /\ s.high_severity_count <= s.total_alerts

\* a strategy whose weighted count of alerts passes 100 beside one whose
\* count stays below
C17_Witness ==
    /\ ret.op = "get_behavior_summary"
    /\ \E c \in DOMAIN ret.value :
          /\ 5 * ret.value[c].floating_loss_add_count
             + 3 * ret.value[c].counter_trend_add_count
             + 10 * ret.value[c].high_severity_count > 100
          /\ ret.value[c].behavior_risk_score = 100
    /\ \E c \in DOMAIN ret.value :
          /\ ret.value[c].behavior_risk_score > 0
          /\ ret.value[c].behavior_risk_score < 100

\* how many times the alert a stands in the list found
CountIn(a, found) == Cardinality({i \in 1..Len(found) : found[i] = a})

\* the alerts of the two detectors on the caller's collections, one list
\* after the other
BothDetectors ==
    detect_floating_loss_add(positions, trades) \o detect_counter_trend_add(positions, trades)

\* C28: the lists of detect_all hold the alerts of the two detectors and no
\* others, each as many times as the detectors return it and each in the
\* list of its own strategy_code; the keys of detect_all and of
\* get_behavior_summary are the strategies with at least one alert.
C28_AlertsPartitionedByStrategy ==
    LET found == BothDetectors
    IN  /\ ret.op = "detect_all" =>
              /\ DOMAIN ret.value = {found[i].strategy_code : i \in 1..Len(found)}
              /\ \A i \in 1..Len(found) :
                    LET a == found[i]
                    IN  /\ CountIn(a, ret.value[a.strategy_code]) = CountIn(a, found)
                        /\ \A c \in DOMAIN ret.value \ {a.strategy_code} :
                              CountIn(a, ret.value[c]) = 0
              /\ \A c \in DOMAIN ret.value :
                    /\ ret.value[c] # <<>>
                    /\ \A i \in 1..Len(ret.value[c]) :
                          /\ ret.value[c][i].strategy_code = c
                          /\ CountIn(ret.value[c][i], found) > 0
              /\ SumOver(DOMAIN ret.value, [c \in DOMAIN ret.value |-> Len(ret.value[c])])
                    = Len(found)
        /\ ret.op = "get_behavior_summary" =>
              /\ DOMAIN ret.value = {found[i].strategy_code : i \in 1..Len(found)}
              /\ \A c \in DOMAIN ret.value :
                    ret.value[c].total_alerts = AlertsOf(found, c)

\* detect_all on the positions of two strategies, one of which has opened
\* twice alike on a loss and a fall: its list holds each of the two alerts
\* twice, and the other strategy has no key
C28_Witness ==
    /\ ret.op = "detect_all"
    /\ DOMAIN ret.value = {"S1"}
    /\ Len(ret.value["S1"]) = 4
    /\ \E i \in 1..Len(positions) : positions[i].strategy_code = "S2"
    /\ \E i \in 1..4 : /\ ret.value["S1"][i].alert_type = "floating_loss_add"
                        /\ CountIn(ret.value["S1"][i], ret.value["S1"]) = 2
    /\ \E i \in 1..4 : /\ ret.value["S1"][i].alert_type = "counter_trend_add"
                        /\ CountIn(ret.value["S1"][i], ret.value["S1"]) = 2

\* the arguments of the call recorded in r, beside the caller's collections
ArgsOf(r) ==
    IF r.op = "calculate_performance" THEN <<r.strategy_code>>
    ELSE IF r.op = "calculate_daily_metrics" THEN <<r.equity_row>>
    ELSE <<>>

\* the value of the call recorded in ret on the collections as they are now
ValueNow ==
    CASE ret.op = "calculate_daily_returns" -> calculate_daily_returns(equity_df)
      [] ret.op = "calculate_performance" ->
            calculate_performance(equity_df, ret.strategy_code, Q(3, 100))
      [] ret.op = "calculate_daily_metrics" ->
            calculate_daily_metrics(ret.equity_row, positions, trades)
      [] ret.op = "detect_floating_loss_add" -> detect_floating_loss_add(positions, trades)
      [] ret.op = "detect_counter_trend_add" -> detect_counter_trend_add(positions, trades)
      [] ret.op = "detect_all" -> detect_all(positions, trades, equity_df)
      [] ret.op = "get_behavior_summary" ->
            get_behavior_summary(positions, trades, equity_df)

====
